---- MODULE Spec2Model ----
(***************************************************************************)
(* Group-commit write path of the redo-log key-value store                 *)
(* (src/src/bin/concurrent.rs): Db::apply_command, Db::wait_for,           *)
(* Db::replay_log, Db::new, Db::get.                                       *)
(*                                                                         *)
(* Threads call set/delete concurrently.  Each program variable of the Db  *)
(* (state, log, memtable and their mutexes, the condition-variable flags)  *)
(* is a variable of the model; each thread has a program counter naming    *)
(* the line of apply_command it is blocked at or about to execute.         *)
(* History variables (submitted, batchOf, result, ...) only record what    *)
(* happened; no action's guard reads them.                                 *)
(***************************************************************************)
EXTENDS Integers, Sequences, FiniteSets, TLC

\* ---------------------------------------------------------------- bounds
NumThreads == 3
MaxCalls == 3
MaxFail == 1
MaxCrash == 1

Threads == 1..NumThreads
NoThread == 0
CallIds == 1..MaxCalls
\* Signal 0 is the condition variable created by Db::new (flag = true);
\* signal n > 0 is the `done` pair created by the n-th leader.
Signals == 0..MaxCalls

Keys == {"foo", "baz"}
Vals == {"bar", "goo"}
None == "none"

\* ------------------------------------------------------------- Command
SetCmd(k, v) == [op |-> "Set", k |-> k, v |-> v]
DeleteCmd(k) == [op |-> "Delete", k |-> k, v |-> None]
\* The commands the callers issue: those of test_basic.
Commands == {SetCmd("foo", "bar"), SetCmd("baz", "goo"), DeleteCmd("foo")}

\* serde_json::to_vec(command): the externally tagged form
\* {"Set":["k","v"]} / {"Delete":"k"}, kept as the tuple of its parts.
Serialize(c) == IF c.op = "Set" THEN <<"Set", c.k, c.v>> ELSE <<"Delete", c.k>>

\* serde_json::from_str(line): the inverse on well-formed text.
Deserialize(b) == IF b[1] = "Set" THEN SetCmd(b[2], b[3]) ELSE DeleteCmd(b[2])

\* ----------------------------------------------------------- variables
VARIABLES
  pc,        \* [Threads -> position in apply_command]
  state,     \* DbState: [tag, notif, writes]
  stateLock, \* holder of the Mutex around Db.state
  logLock,   \* holder of the Mutex around Db.log
  memLock,   \* holder of the Mutex around Db.memtable
  done,      \* [Signals -> BOOLEAN], the bool of each (Mutex<bool>, Condvar)
  nextSig,   \* number of `done` pairs created so far
  notif,     \* [Threads -> Signals], local `notif` (leader) or `batch_notif` (follower)
  myDone,    \* [Threads -> Signals], local `done` of a leader
  writes,    \* [Threads -> Seq], local `writes` of a leader
  widx,      \* [Threads -> Nat], position of the write loop in `writes`
  file,      \* content of the log file, a sequence of written pieces
  synced,    \* length of the prefix of file covered by a completed sync_all
  memtable,  \* [Keys -> Vals \cup {None}]
  got,       \* result of the last get
  phase,     \* "open" | "crashed"
  crashes,   \* number of host crashes so far
  fails,     \* number of I/O errors so far
  \* history
  submitted, \* Seq of commands, in the order their callers locked Db.state
  batchOf,   \* Seq: batchOf[id] = signal of the batch call id was put in
  batches,   \* [Signals -> Seq of call ids], every push to a batch, in order
  myCall,    \* [Threads -> call id of the current call]
  result,    \* Seq: "pending" | "ok" | "err" per call id
  syncedB,   \* set of batches whose sync_all completed
  failedB,   \* set of batches whose write or sync failed
  applied,   \* Seq of call ids in the order applied to the memtable
  memBefore, \* [Threads -> memtable when the leader took its batch]
  replayed,  \* Seq of call ids yielded by the last replay_log
  ackedAtCrash, \* set of call ids that had returned Ok when the host crashed
  syncCalls, \* [Signals -> Nat], completed sync_all calls of each batch's leader
  wave       \* number of calls submitted before the first sync_all completed

vars == <<pc, state, stateLock, logLock, memLock, done, nextSig, notif, myDone,
          writes, widx, file, synced, memtable, got, phase, crashes, fails,
          submitted, batchOf, batches, myCall, result, syncedB, failedB,
          applied, memBefore, replayed, ackedAtCrash, syncCalls, wave>>

dbVars == <<state, stateLock, logLock, memLock, done, nextSig>>
localVars == <<notif, myDone, writes, widx>>
diskVars == <<file, synced>>
histVars == <<submitted, batchOf, batches, myCall, result, syncedB, failedB,
              applied, memBefore, replayed, ackedAtCrash, syncCalls, wave>>

\* ----------------------------------------------------------- DbState
Pending(prev) == [tag |-> "Pending", notif |-> prev, writes |-> <<>>]
\* A leader that installs its batch under the Pending tag.
PendingLeaderAsPending(ws, sig) == [tag |-> "Pending", notif |-> sig, writes |-> ws]

PendingLeader(ws, sig) == [tag |-> "PendingLeader", notif |-> sig, writes |-> ws]

\* An entry of a batch: the command and the call it came from.
Entry(c, id) == [cmd |-> c, id |-> id]

\* ------------------------------------------------------------ memtable
EmptyMem == [k \in Keys |-> None]

ApplyCommandToMemtable(m, c) ==
  IF c.op = "Set" THEN [m EXCEPT ![c.k] = c.v] ELSE [m EXCEPT ![c.k] = None]

\* An apply loop that walks the batch from its last command to its first.
RECURSIVE ApplyAllReversed(_, _)
ApplyAllReversed(m, ws) ==
  IF ws = <<>> THEN m
  ELSE ApplyAllReversed(ApplyCommandToMemtable(m, ws[Len(ws)].cmd),
                        SubSeq(ws, 1, Len(ws) - 1))

RECURSIVE ApplyAll(_, _)
ApplyAll(m, ws) ==
  IF ws = <<>> THEN m
  ELSE ApplyAll(ApplyCommandToMemtable(m, Head(ws).cmd), Tail(ws))

\* ------------------------------------------------------------ log file
\* A piece of the file: the JSON text of one command, a partial JSON text
\* left by a failed write_all, or the newline.
JsonPiece(e) == [kind |-> "json", bytes |-> Serialize(e.cmd), id |-> e.id]
PartPiece(e) == [kind |-> "part", bytes |-> <<>>, id |-> e.id]
NlPiece == [kind |-> "nl", bytes |-> <<>>, id |-> 0]

\* A write at the start of the file (the file not opened for append).
WriteAtStart(f, p) == <<p>> \o f

\* File opened with append(true): every write goes to the end.
AppendToLog(f, p) == Append(f, p)

\* BufRead::lines: split at newlines; a last line without newline is a line.
RECURSIVE SplitLines(_, _)
SplitLines(f, cur) ==
  IF f = <<>> THEN (IF cur = <<>> THEN <<>> ELSE <<cur>>)
  ELSE IF Head(f).kind = "nl" THEN <<cur>> \o SplitLines(Tail(f), <<>>)
  ELSE SplitLines(Tail(f), Append(cur, Head(f)))

\* serde_json::from_str succeeds on a line holding exactly one JSON value.
LineParses(l) == Len(l) = 1 /\ l[1].kind = "json"

\* Db::replay_log: [ok, mem, ids]; stops with an error at the first line
\* that does not parse.
RECURSIVE ReplayLines(_, _, _)
ReplayLines(ls, m, ids) ==
  IF ls = <<>> THEN [ok |-> TRUE, mem |-> m, ids |-> ids]
  ELSE IF ~LineParses(Head(ls)) THEN [ok |-> FALSE, mem |-> m, ids |-> ids]
  ELSE ReplayLines(Tail(ls),
                   ApplyCommandToMemtable(m, Deserialize(Head(ls)[1].bytes)),
                   Append(ids, Head(ls)[1].id))

\* A replay that misses the last line of the file.
ReplayLogDropsLast(f) ==
  LET ls == SplitLines(f, <<>>)
  IN ReplayLines(SubSeq(ls, 1, Len(ls) - 1), EmptyMem, <<>>)

ReplayLog(f) == ReplayLines(SplitLines(f, <<>>), EmptyMem, <<>>)

\* -------------------------------------------------------- primitives
\* A lock that does not exclude.
CanLockAlways(m) == TRUE

\* Mutex::lock returns once the mutex is free.
CanLock(m) == m = NoThread

\* A wait_for that does not look at the flag.
SignalledNoWait(s) == TRUE

\* Db::wait_for returns once the flag of the pair is true.
Signalled(s) == done[s]

\* ---------------------------------------------------------------- Init
\* Db::new on a fresh file.
Init ==
  /\ pc = [t \in Threads |-> "idle"]
  /\ state = Pending(0)
  /\ stateLock = NoThread
  /\ logLock = NoThread
  /\ memLock = NoThread
  /\ done = [s \in Signals |-> s = 0]
  /\ nextSig = 0
  /\ notif = [t \in Threads |-> 0]
  /\ myDone = [t \in Threads |-> 0]
  /\ writes = [t \in Threads |-> <<>>]
  /\ widx = [t \in Threads |-> 0]
  /\ file = <<>>
  /\ synced = 0
  /\ memtable = EmptyMem
  /\ got = None
  /\ phase = "open"
  /\ crashes = 0
  /\ fails = 0
  /\ submitted = <<>>
  /\ batchOf = <<>>
  /\ batches = [s \in Signals |-> <<>>]
  /\ myCall = [t \in Threads |-> 0]
  /\ result = <<>>
  /\ syncedB = {}
  /\ failedB = {}
  /\ applied = <<>>
  /\ memBefore = [t \in Threads |-> EmptyMem]
  /\ replayed = <<>>
  /\ ackedAtCrash = {}
  /\ syncCalls = [s \in Signals |-> 0]
  /\ wave = 0


\* No sync_all of a leader has completed yet.
NoSyncYet == \A s \in Signals : syncCalls[s] = 0

\* ---------------------------------------------------- batch operations
\* vec![command.clone()] (line 109)
NewBatch(e) == <<e>>

\* A push that loses the command.
PushWriteDropped(ws, e) == ws

\* A push at the front of the batch.
PushWriteFront(ws, e) == <<e>> \o ws

\* writes.push(command.clone()) (line 155)
PushWrite(ws, e) == Append(ws, e)

IdsOf(ws) == [i \in 1..Len(ws) |-> ws[i].id]

\* ------------------------------------------------------------- actions
\* apply_command returns: its locals (notif, done, writes, the loop position)
\* go out of scope.
DropLocals(t) ==
  /\ notif' = [notif EXCEPT ![t] = 0]
  /\ myDone' = [myDone EXCEPT ![t] = 0]
  /\ writes' = [writes EXCEPT ![t] = <<>>]
  /\ widx' = [widx EXCEPT ![t] = 0]
  /\ memBefore' = [memBefore EXCEPT ![t] = EmptyMem]
  /\ myCall' = [myCall EXCEPT ![t] = 0]

\* A caller that starts a batch of its own whatever Db.state holds: no
\* follower path, every caller a leader waiting for the one before it.
SubmitLeaderAnyState(t, c) ==
  /\ phase = "open"
  /\ pc[t] = "idle"
  /\ Len(submitted) < MaxCalls
  /\ CanLock(stateLock)
  /\ LET id == Len(submitted) + 1
         d == nextSig + 1
     IN /\ nextSig' = d
        /\ state' = PendingLeader(NewBatch(Entry(c, id)), d)
        /\ notif' = [notif EXCEPT ![t] = state.notif]
        /\ myDone' = [myDone EXCEPT ![t] = d]
        /\ submitted' = Append(submitted, c)
        /\ batchOf' = Append(batchOf, d)
        /\ batches' = [batches EXCEPT ![d] = IdsOf(NewBatch(Entry(c, id)))]
        /\ myCall' = [myCall EXCEPT ![t] = id]
        /\ result' = Append(result, "pending")
        /\ wave' = IF NoSyncYet THEN wave + 1 ELSE wave
  /\ pc' = [pc EXCEPT ![t] = "wait_prev"]
  /\ UNCHANGED <<stateLock, logLock, memLock, done, writes, widx, diskVars,
                 memtable, got, phase, crashes, fails, syncedB, failedB,
                 applied, memBefore, replayed,
                 ackedAtCrash, syncCalls>>

\* apply_command, lines 100-117: the caller locks Db.state, finds Pending,
\* installs PendingLeader with its own command and a fresh `done` pair,
\* keeps the previous batch's pair as `notif`, unlocks.
SubmitLeader(t, c) ==
  /\ phase = "open"
  /\ pc[t] = "idle"
  /\ Len(submitted) < MaxCalls
  /\ CanLock(stateLock)
  /\ state.tag = "Pending"
  /\ LET id == Len(submitted) + 1
         d == nextSig + 1
     IN /\ nextSig' = d
        /\ state' = PendingLeader(NewBatch(Entry(c, id)), d)
        /\ notif' = [notif EXCEPT ![t] = state.notif]
        /\ myDone' = [myDone EXCEPT ![t] = d]
        /\ submitted' = Append(submitted, c)
        /\ batchOf' = Append(batchOf, d)
        /\ batches' = [batches EXCEPT ![d] = IdsOf(NewBatch(Entry(c, id)))]
        /\ myCall' = [myCall EXCEPT ![t] = id]
        /\ result' = Append(result, "pending")
        /\ wave' = IF NoSyncYet THEN wave + 1 ELSE wave
  /\ pc' = [pc EXCEPT ![t] = "wait_prev"]
  /\ UNCHANGED <<stateLock, logLock, memLock, done, writes, widx, diskVars,
                 memtable, got, phase, crashes, fails, syncedB, failedB,
                 applied, memBefore, replayed,
                 ackedAtCrash, syncCalls>>

\* apply_command, lines 100-101 and 148-157: the caller locks Db.state, finds
\* PendingLeader, pushes its command, clones batch_notif, unlocks.
SubmitFollower(t, c) ==
  /\ phase = "open"
  /\ pc[t] = "idle"
  /\ Len(submitted) < MaxCalls
  /\ CanLock(stateLock)
  /\ state.tag = "PendingLeader"
  /\ LET id == Len(submitted) + 1
         ws == PushWrite(state.writes, Entry(c, id))
     IN /\ state' = [state EXCEPT !.writes = ws]
        /\ notif' = [notif EXCEPT ![t] = state.notif]
        /\ submitted' = Append(submitted, c)
        /\ batchOf' = Append(batchOf, state.notif)
        /\ batches' = [batches EXCEPT ![state.notif] = IdsOf(ws)]
        /\ myCall' = [myCall EXCEPT ![t] = id]
        /\ result' = Append(result, "pending")
        /\ wave' = IF NoSyncYet THEN wave + 1 ELSE wave
  /\ pc' = [pc EXCEPT ![t] = "wait_batch"]
  /\ UNCHANGED <<stateLock, logLock, memLock, done, nextSig, myDone, writes,
                 widx, diskVars, memtable, got, phase, crashes, fails,
                 syncedB, failedB, applied, memBefore, replayed,
                 ackedAtCrash, syncCalls>>

\* line 158: the follower's wait_for(batch_notif) returns; line 161: Ok(()).
FollowerReturn(t) ==
  /\ phase = "open"
  /\ pc[t] = "wait_batch"
  /\ Signalled(notif[t])
  /\ pc' = [pc EXCEPT ![t] = "idle"]
  /\ result' = [result EXCEPT ![myCall[t]] = "ok"]
  /\ DropLocals(t)
  /\ UNCHANGED <<dbVars, diskVars, memtable, got, phase, crashes, fails,
                 submitted, batchOf, batches, syncedB, failedB, applied,
                 replayed,
                 ackedAtCrash, syncCalls, wave>>

\* line 119: the leader's wait_for(notif) returns.
WaitPrev(t) ==
  /\ phase = "open"
  /\ pc[t] = "wait_prev"
  /\ Signalled(notif[t])
  /\ pc' = [pc EXCEPT ![t] = "relock"]
  /\ UNCHANGED <<dbVars, localVars, diskVars, memtable, got, phase, crashes,
                 fails, histVars>>

\* The leader takes a copy of the writes and leaves PendingLeader in place.
RelockKeepsLeader(t) ==
  /\ phase = "open"
  /\ pc[t] = "relock"
  /\ CanLock(stateLock)
  /\ state.tag = "PendingLeader"
  /\ stateLock' = t
  /\ writes' = [writes EXCEPT ![t] = state.writes]
  /\ state' = state
  /\ pc' = [pc EXCEPT ![t] = "lock_log"]
  /\ UNCHANGED <<logLock, memLock, done, nextSig, notif, myDone, widx,
                 diskVars, memtable, got, phase, crashes, fails, histVars>>

\* lines 121-131: the leader locks Db.state again, takes the accumulated
\* writes and installs Pending with its own `done` pair.  It keeps the state
\* lock until it has the log lock (line 132 precedes line 133).
Relock(t) ==
  /\ phase = "open"
  /\ pc[t] = "relock"
  /\ CanLock(stateLock)
  /\ state.tag = "PendingLeader"
  /\ stateLock' = t
  /\ writes' = [writes EXCEPT ![t] = state.writes]
  /\ state' = Pending(myDone[t])
  /\ pc' = [pc EXCEPT ![t] = "lock_log"]
  /\ UNCHANGED <<logLock, memLock, done, nextSig, notif, myDone, widx,
                 diskVars, memtable, got, phase, crashes, fails, histVars>>

\* The leader keeps the state mutex while it writes (no drop(state)).
LockLogKeepsState(t) ==
  /\ phase = "open"
  /\ pc[t] = "lock_log"
  /\ CanLock(logLock)
  /\ logLock' = t
  /\ stateLock' = stateLock
  /\ widx' = [widx EXCEPT ![t] = 1]
  /\ memBefore' = [memBefore EXCEPT ![t] = memtable]
  /\ pc' = [pc EXCEPT ![t] = "write_json"]
  /\ UNCHANGED <<state, memLock, done, nextSig, notif, myDone, writes,
                 diskVars, memtable, got, phase, crashes, fails, submitted,
                 batchOf, batches, myCall, result, syncedB, failedB, applied,
                 replayed, ackedAtCrash, syncCalls, wave>>

\* lines 132-133: self.log.lock(), then drop(state).
LockLog(t) ==
  /\ phase = "open"
  /\ pc[t] = "lock_log"
  /\ CanLock(logLock)
  /\ logLock' = t
  /\ stateLock' = NoThread
  /\ widx' = [widx EXCEPT ![t] = 1]
  /\ memBefore' = [memBefore EXCEPT ![t] = memtable]
  /\ pc' = [pc EXCEPT ![t] = "write_json"]
  /\ UNCHANGED <<state, memLock, done, nextSig, notif, myDone, writes,
                 diskVars, memtable, got, phase, crashes, fails, submitted,
                 batchOf, batches, myCall, result, syncedB, failedB, applied,
                 replayed,
                 ackedAtCrash, syncCalls, wave>>

\* A write loop that walks the batch from its last command to its first.
WriteJsonReversed(t) ==
  /\ phase = "open"
  /\ pc[t] = "write_json"
  /\ file' = AppendToLog(file,
                JsonPiece(writes[t][Len(writes[t]) + 1 - widx[t]]))
  /\ pc' = [pc EXCEPT ![t] = "write_nl"]
  /\ UNCHANGED <<dbVars, localVars, synced, memtable, got, phase, crashes,
                 fails, histVars>>

\* line 135: log.write_all(&serde_json::to_vec(command)?) succeeds.
WriteJson(t) ==
  /\ phase = "open"
  /\ pc[t] = "write_json"
  /\ file' = AppendToLog(file, JsonPiece(writes[t][widx[t]]))
  /\ pc' = [pc EXCEPT ![t] = "write_nl"]
  /\ UNCHANGED <<dbVars, localVars, synced, memtable, got, phase, crashes,
                 fails, histVars>>

\* The write loop applies each command to the memtable as soon as its
\* record is written, before the sync.
WriteNlEager(t) ==
  /\ phase = "open"
  /\ pc[t] = "write_nl"
  /\ file' = AppendToLog(file, NlPiece)
  /\ memtable' = ApplyCommandToMemtable(memtable, writes[t][widx[t]].cmd)
  /\ IF widx[t] < Len(writes[t])
       THEN /\ widx' = [widx EXCEPT ![t] = widx[t] + 1]
            /\ pc' = [pc EXCEPT ![t] = "write_json"]
       ELSE /\ widx' = widx
            /\ pc' = [pc EXCEPT ![t] = "sync"]
  /\ UNCHANGED <<dbVars, notif, myDone, writes, synced, got, phase, crashes,
                 fails, histVars>>

\* The write loop calls sync_all after every record.
WriteNlSyncing(t) ==
  /\ phase = "open"
  /\ pc[t] = "write_nl"
  /\ file' = AppendToLog(file, NlPiece)
  /\ synced' = Len(file')
  /\ syncCalls' = [syncCalls EXCEPT ![myDone[t]] = @ + 1]
  /\ IF widx[t] < Len(writes[t])
       THEN /\ widx' = [widx EXCEPT ![t] = widx[t] + 1]
            /\ pc' = [pc EXCEPT ![t] = "write_json"]
       ELSE /\ widx' = widx
            /\ pc' = [pc EXCEPT ![t] = "sync"]
  /\ UNCHANGED <<dbVars, notif, myDone, writes, memtable, got, phase,
                 crashes, fails, submitted, batchOf, batches, myCall, result,
                 syncedB, failedB, applied, memBefore, replayed, ackedAtCrash,
                 wave>>

WriteNl(t) ==
  /\ phase = "open"
  /\ pc[t] = "write_nl"
  /\ file' = AppendToLog(file, NlPiece)
  /\ IF widx[t] < Len(writes[t])
       THEN /\ widx' = [widx EXCEPT ![t] = widx[t] + 1]
            /\ pc' = [pc EXCEPT ![t] = "write_json"]
       ELSE /\ widx' = widx
            /\ pc' = [pc EXCEPT ![t] = "sync"]
  /\ UNCHANGED <<dbVars, notif, myDone, writes, synced, memtable, got, phase,
                 crashes, fails, histVars>>

\* The `?` of lines 135, 136, 138: the error is returned at once; the log
\* guard is dropped, `done` is left false, the memtable is not touched.
LeaderFails(t) ==
  /\ logLock' = NoThread
  /\ fails' = fails + 1
  /\ failedB' = failedB \cup {myDone[t]}
  /\ result' = [result EXCEPT ![myCall[t]] = "err"]
  /\ pc' = [pc EXCEPT ![t] = "idle"]
  /\ DropLocals(t)
  /\ UNCHANGED <<state, stateLock, memLock, done, nextSig, synced, memtable,
                 got, phase, crashes, submitted, batchOf, batches, syncedB,
                 applied, replayed,
                 ackedAtCrash, syncCalls, wave>>

\* line 135 fails: write_all may have written a proper prefix of the JSON
\* text before the error (partial), or nothing.
WriteJsonFail(t, partial) ==
  /\ phase = "open"
  /\ pc[t] = "write_json"
  /\ fails < MaxFail
  /\ file' = IF partial THEN AppendToLog(file, PartPiece(writes[t][widx[t]]))
                        ELSE file
  /\ LeaderFails(t)

\* line 136 fails: the one-byte write wrote nothing.
WriteNlFail(t) ==
  /\ phase = "open"
  /\ pc[t] = "write_nl"
  /\ fails < MaxFail
  /\ file' = file
  /\ LeaderFails(t)

\* The leader goes on without sync_all: nothing becomes durable.
SyncAllSkipped(t) ==
  /\ phase = "open"
  /\ pc[t] = "sync"
  /\ synced' = synced
  /\ syncedB' = syncedB
  /\ syncCalls' = syncCalls
  /\ pc' = [pc EXCEPT ![t] = "lock_mem"]
  /\ UNCHANGED <<dbVars, localVars, file, memtable, got, phase, crashes,
                 fails, submitted, batchOf, batches, myCall, result, failedB,
                 applied, memBefore, replayed, ackedAtCrash, wave>>

\* line 138: log.sync_all() succeeds: everything written so far is durable.
SyncAll(t) ==
  /\ phase = "open"
  /\ pc[t] = "sync"
  /\ synced' = Len(file)
  /\ syncedB' = syncedB \cup {myDone[t]}
  /\ syncCalls' = [syncCalls EXCEPT ![myDone[t]] = @ + 1]
  /\ pc' = [pc EXCEPT ![t] = "lock_mem"]
  /\ UNCHANGED <<dbVars, localVars, file, memtable, got, phase, crashes,
                 fails, submitted, batchOf, batches, myCall, result, failedB,
                 applied, memBefore, replayed,
                 ackedAtCrash, wave>>

\* line 138 fails.
SyncFail(t) ==
  /\ phase = "open"
  /\ pc[t] = "sync"
  /\ fails < MaxFail
  /\ file' = file
  /\ LeaderFails(t)

\* The leader skips the apply loop.
ApplyBatchSkipped(t) ==
  /\ phase = "open"
  /\ pc[t] = "lock_mem"
  /\ CanLock(memLock)
  /\ memLock' = t
  /\ memtable' = memtable
  /\ applied' = applied
  /\ pc' = [pc EXCEPT ![t] = "notify"]
  /\ UNCHANGED <<state, stateLock, logLock, done, nextSig, localVars,
                 diskVars, got, phase, crashes, fails, submitted, batchOf,
                 batches, myCall, result, syncedB, failedB, memBefore,
                 replayed, ackedAtCrash, syncCalls, wave>>

\* lines 140-143: lock the memtable and apply the batch in order.
ApplyBatch(t) ==
  /\ phase = "open"
  /\ pc[t] = "lock_mem"
  /\ CanLock(memLock)
  /\ memLock' = t
  /\ memtable' = ApplyAll(memtable, writes[t])
  /\ applied' = applied \o IdsOf(writes[t])
  /\ pc' = [pc EXCEPT ![t] = "notify"]
  /\ UNCHANGED <<state, stateLock, logLock, done, nextSig, localVars,
                 diskVars, got, phase, crashes, fails, submitted, batchOf,
                 batches, myCall, result, syncedB, failedB, memBefore,
                 replayed,
                 ackedAtCrash, syncCalls, wave>>

\* The leader finishes without setting the flag of `done`.
NotifyLost(t) ==
  /\ phase = "open"
  /\ pc[t] = "notify"
  /\ done' = done
  /\ pc' = [pc EXCEPT ![t] = "unlock"]
  /\ UNCHANGED <<state, stateLock, logLock, memLock, nextSig, localVars,
                 diskVars, memtable, got, phase, crashes, fails, histVars>>

\* lines 145-146: set the flag of `done` and notify_all.
Notify(t) ==
  /\ phase = "open"
  /\ pc[t] = "notify"
  /\ done' = [done EXCEPT ![myDone[t]] = TRUE]
  /\ pc' = [pc EXCEPT ![t] = "unlock"]
  /\ UNCHANGED <<state, stateLock, logLock, memLock, nextSig, localVars,
                 diskVars, memtable, got, phase, crashes, fails, histVars>>

\* lines 147, 161: the memtable and log guards go out of scope; Ok(()).
LeaderReturn(t) ==
  /\ phase = "open"
  /\ pc[t] = "unlock"
  /\ memLock' = NoThread
  /\ logLock' = NoThread
  /\ result' = [result EXCEPT ![myCall[t]] = "ok"]
  /\ pc' = [pc EXCEPT ![t] = "idle"]
  /\ DropLocals(t)
  /\ UNCHANGED <<state, stateLock, done, nextSig, diskVars, memtable, got,
                 phase, crashes, fails, submitted, batchOf, batches, syncedB,
                 failedB, applied, replayed,
                 ackedAtCrash, syncCalls, wave>>

\* A get that goes through the mutex of Db.state first.
GetUnderStateLock(k) ==
  /\ phase = "open"
  /\ CanLock(stateLock)
  /\ CanLock(memLock)
  /\ got' = memtable[k]
  /\ UNCHANGED <<pc, dbVars, localVars, diskVars, memtable, phase, crashes,
                 fails, histVars>>

\* Db::get, lines 174-176: lock the memtable, read, unlock.
Get(k) ==
  /\ phase = "open"
  /\ CanLock(memLock)
  /\ got' = memtable[k]
  /\ UNCHANGED <<pc, dbVars, localVars, diskVars, memtable, phase, crashes,
                 fails, histVars>>

\* The host crashes: every byte not covered by a completed sync_all is lost,
\* and so are all threads and the in-memory Db.
Crash ==
  /\ phase = "open"
  /\ crashes < MaxCrash
  /\ crashes' = crashes + 1
  /\ phase' = "crashed"
  /\ file' = SubSeq(file, 1, synced)
  /\ pc' = [t \in Threads |-> "idle"]
  /\ state' = Pending(0)
  /\ stateLock' = NoThread
  /\ logLock' = NoThread
  /\ memLock' = NoThread
  /\ notif' = [t \in Threads |-> 0]
  /\ myDone' = [t \in Threads |-> 0]
  /\ writes' = [t \in Threads |-> <<>>]
  /\ widx' = [t \in Threads |-> 0]
  /\ memtable' = EmptyMem
  /\ got' = None
  /\ memBefore' = [t \in Threads |-> EmptyMem]
  /\ myCall' = [t \in Threads |-> 0]
  /\ ackedAtCrash' = {id \in 1..Len(result) : result[id] = "ok"}
  /\ UNCHANGED <<done, nextSig, synced, fails, submitted, batchOf, batches,
                 result, syncedB, failedB, applied, replayed, syncCalls, wave>>

\* Db::new, lines 57-66, on the file the crash left: open for append,
\* sync_all, replay_log into the memtable, state = Pending with a pair whose
\* flag is true.
Reopen ==
  /\ phase = "crashed"
  /\ ReplayLog(file).ok
  /\ phase' = "open"
  /\ synced' = Len(file)
  /\ memtable' = ReplayLog(file).mem
  /\ replayed' = ReplayLog(file).ids
  /\ state' = Pending(0)
  /\ UNCHANGED <<pc, stateLock, logLock, memLock, done, nextSig, localVars,
                 file, got, crashes, fails, submitted, batchOf, batches,
                 myCall, result, syncedB, failedB, applied, memBefore,
                 ackedAtCrash, syncCalls, wave>>

ThreadStep(t) ==
  \/ FollowerReturn(t)
  \/ WaitPrev(t)
  \/ Relock(t)
  \/ LockLog(t)
  \/ WriteJson(t)
  \/ WriteNl(t)
  \/ SyncAll(t)
  \/ ApplyBatch(t)
  \/ Notify(t)
  \/ LeaderReturn(t)

Submit(t) == \E c \in Commands : SubmitLeader(t, c) \/ SubmitFollower(t, c)

IoFailure(t) ==
  \/ \E partial \in BOOLEAN : WriteJsonFail(t, partial)
  \/ WriteNlFail(t)
  \/ SyncFail(t)

Next ==
  \/ \E t \in Threads : Submit(t)
  \/ \E t \in Threads : ThreadStep(t)
  \/ \E t \in Threads : IoFailure(t)
  \/ \E k \in Keys : Get(k)
  \/ Crash
  \/ Reopen

Spec == Init /\ [][Next]_vars

\* The same program with a healthy disk and host (no append or sync fails,
\* no crash) and a scheduler that lets every thread that can take a step do
\* so eventually.
HealthyNext ==
  \/ \E t \in Threads : Submit(t)
  \/ \E t \in Threads : ThreadStep(t)
  \/ \E k \in Keys : Get(k)

Fairness == \A t \in Threads : WF_vars(ThreadStep(t))

HealthySpec == Init /\ [][HealthyNext]_vars /\ Fairness

\* The program with I/O errors on a host that stays up, fairly scheduled.
FailingNext ==
  \/ \E t \in Threads : Submit(t)
  \/ \E t \in Threads : ThreadStep(t)
  \/ \E t \in Threads : IoFailure(t)
  \/ \E k \in Keys : Get(k)

FailingSpec == Init /\ [][FailingNext]_vars /\ Fairness

\* The process exits or is killed and the host stays up: all threads and the
\* in-memory Db are lost, the file keeps everything written.  A process
\* killed inside the write_all of line 135 leaves a proper prefix of the
\* JSON text at the end of the file (torn).
Restart(torn) ==
  /\ phase = "open"
  /\ crashes < MaxCrash
  /\ crashes' = crashes + 1
  /\ phase' = "crashed"
  /\ IF torn
       THEN \E t \in Threads :
               /\ pc[t] = "write_json"
               /\ file' = AppendToLog(file, PartPiece(writes[t][widx[t]]))
       ELSE file' = file
  /\ pc' = [t \in Threads |-> "idle"]
  /\ state' = Pending(0)
  /\ stateLock' = NoThread
  /\ logLock' = NoThread
  /\ memLock' = NoThread
  /\ notif' = [t \in Threads |-> 0]
  /\ myDone' = [t \in Threads |-> 0]
  /\ writes' = [t \in Threads |-> <<>>]
  /\ widx' = [t \in Threads |-> 0]
  /\ memtable' = EmptyMem
  /\ got' = None
  /\ memBefore' = [t \in Threads |-> EmptyMem]
  /\ myCall' = [t \in Threads |-> 0]
  /\ ackedAtCrash' = {id \in 1..Len(result) : result[id] = "ok"}
  /\ UNCHANGED <<done, nextSig, synced, fails, submitted, batchOf, batches,
                 result, syncedB, failedB, applied, replayed, syncCalls, wave>>

\* Db::new, lines 57-59: replay_log returns the serde_json error of a line
\* that does not parse, and `?` makes Db::new return it: no store.
ReopenFails ==
  /\ phase = "crashed"
  /\ ~ReplayLog(file).ok
  /\ phase' = "failed"
  /\ synced' = Len(file)
  /\ UNCHANGED <<pc, dbVars, localVars, file, memtable, got, crashes, fails,
                 histVars>>

\* The program with I/O errors, host crashes and process restarts.
RecoveryNext ==
  \/ Next
  \/ \E torn \in BOOLEAN : Restart(torn)
  \/ ReopenFails

RecoverySpec == Init /\ [][RecoveryNext]_vars

\* --------------------------------------------------------------- types
TypeOK ==
  /\ pc \in [Threads -> {"idle", "wait_prev", "wait_batch", "relock",
                         "lock_log", "write_json", "write_nl", "sync",
                         "lock_mem", "notify", "unlock"}]
  /\ state.tag \in {"Pending", "PendingLeader"}
  /\ state.notif \in Signals
  /\ stateLock \in Threads \cup {NoThread}
  /\ logLock \in Threads \cup {NoThread}
  /\ memLock \in Threads \cup {NoThread}
  /\ done \in [Signals -> BOOLEAN]
  /\ nextSig \in Signals
  /\ synced \in 0..Len(file)
  /\ memtable \in [Keys -> Vals \cup {None}]
  /\ Len(submitted) <= MaxCalls


\* ------------------------------------------------------------ helpers
Range(q) == {q[i] : i \in 1..Len(q)}
Acked == {id \in 1..Len(result) : result[id] = "ok"}
Failed == {id \in 1..Len(result) : result[id] = "err"}
\* positions of the file holding the (whole) JSON text of a command
JsonAt == {i \in 1..Len(file) : file[i].kind = "json"}
\* a leader inside the write loop or the sync (step e)
Appending(t) == pc[t] \in {"write_json", "write_nl", "sync"}
\* a leader between the start of its append and the resolution of its
\* signal (steps e-f)
InWriteSection(t) == pc[t] \in {"write_json", "write_nl", "sync", "lock_mem", "notify"}
IsLeader(t) == pc[t] \in {"wait_prev", "relock", "lock_log", "write_json",
                          "write_nl", "sync", "lock_mem", "notify", "unlock"}

\* ------------------------------------------------------------------ C1
\* C1: no set/delete call, leader or follower, has returned success unless
\* the sync_all of its batch has completed and the synced prefix of the
\* journal holds its command's record.
C1_AckOnlyAfterSync ==
  \A id \in Acked :
     /\ batchOf[id] \in syncedB
     /\ \E i \in JsonAt : i < synced /\ file[i].id = id /\ file[i + 1].kind = "nl"

\* A leader and a follower of the same batch have both returned success.
C1_Witness ==
  \E a, b \in Acked : a # b /\ batchOf[a] = batchOf[b]

\* ------------------------------------------------------------------ C2
\* C2: after a host crash (every unsynced byte lost) the journal left on
\* disk replays without error, and the replay done by the reopened store
\* yields every command whose call had returned success before the crash.
C2_AckedSurvivesCrash ==
  /\ phase = "crashed" => ReplayLog(file).ok
  /\ (phase = "open" /\ crashes > 0) => ackedAtCrash \subseteq Range(replayed)

\* The store was reopened after a crash that hit while some call had been
\* acknowledged and another was still in flight.
C2_Witness ==
  /\ phase = "open" /\ crashes > 0
  /\ ackedAtCrash # {}
  /\ \E id \in 1..Len(result) : id \notin ackedAtCrash /\ id \notin Range(replayed)

\* ------------------------------------------------------------------ C3
\* C3: every thread inside steps e-f (append, sync, apply, resolve) holds the
\* log mutex, so at most one thread is inside them.
C3_OneWriter ==
  /\ \A t \in Threads : InWriteSection(t) => logLock = t
  /\ Cardinality({t \in Threads : InWriteSection(t)}) <= 1

\* A leader is appending while the leader of the next batch has already
\* been elected and waits.
C3_Witness ==
  \E t, u \in Threads : Appending(t) /\ pc[u] = "wait_prev" /\ notif[u] = myDone[t]

\* ------------------------------------------------------------------ C4
\* C4: the records of one batch are in the journal, and were applied to the
\* memtable, in the order their callers locked Db.state (the leader first).
C4_BatchOrder ==
  /\ \A i, j \in JsonAt :
        (i < j /\ batchOf[file[i].id] = batchOf[file[j].id]) => file[i].id < file[j].id
  /\ \A i, j \in 1..Len(applied) :
        (i < j /\ batchOf[applied[i]] = batchOf[applied[j]]) => applied[i] < applied[j]

\* A batch of at least two commands was written and applied.
C4_Witness ==
  /\ \E i, j \in JsonAt : i < j /\ batchOf[file[i].id] = batchOf[file[j].id]
  /\ \E i, j \in 1..Len(applied) : i < j /\ batchOf[applied[i]] = batchOf[applied[j]]

\* ------------------------------------------------------------------ C5
\* C5: while a leader appends or syncs its batch, no leader of an earlier
\* batch is still before the end of its sync, and the journal never holds a
\* record of a later batch before a record of an earlier batch.
C5_BatchSuccession ==
  /\ \A t, u \in Threads :
        (Appending(t) /\ IsLeader(u) /\ myDone[u] < myDone[t])
           => pc[u] \in {"lock_mem", "notify", "unlock"}
  /\ \A i, j \in 1..Len(file) :
        (i < j /\ file[i].kind # "nl" /\ file[j].kind # "nl")
           => batchOf[file[i].id] <= batchOf[file[j].id]

\* The journal holds records of two different batches.
C5_Witness ==
  \E i, j \in JsonAt : batchOf[file[i].id] < batchOf[file[j].id]


\* ------------------------------------------------------------------ C6
\* C6: every submitted command was pushed to exactly one batch, exactly
\* once; no record is in the journal twice; every record of the journal is
\* the serialization of the submitted command it came from; and while no I/O
\* error has happened each call that returned has exactly one record.
PlacesIn(b, id) == {i \in 1..Len(batches[b]) : batches[b][i] = id}

C6_NoLossNoDup ==
  /\ \A id \in 1..Len(submitted) :
        /\ Cardinality(PlacesIn(batchOf[id], id)) = 1
        /\ \A b \in Signals \ {batchOf[id]} : PlacesIn(b, id) = {}
  /\ \A i, j \in JsonAt : file[i].id = file[j].id => i = j
  /\ \A i \in 1..Len(file) :
        file[i].kind # "nl" => file[i].id \in 1..Len(submitted)
  /\ \A i \in JsonAt : Deserialize(file[i].bytes) = submitted[file[i].id]
  /\ fails = 0 =>
        \A id \in Acked \cup ackedAtCrash :
           Cardinality({i \in JsonAt : file[i].id = id}) = 1

\* Without any I/O error, a leader and its follower and the leader of
\* another batch have all returned.
C6_Witness ==
  /\ fails = 0
  /\ \E a, b, c \in Acked :
        a # b /\ batchOf[a] = batchOf[b] /\ batchOf[c] # batchOf[a]

\* ------------------------------------------------------------------ C7
\* C7: with a healthy disk and fair scheduling, a thread inside a set/delete
\* call always has some thread able to take a step (no deadlock), and every
\* call eventually returns, for leaders and followers alike.
NoCallStuck ==
  (\E t \in Threads : pc[t] # "idle") => (\E t \in Threads : ENABLED ThreadStep(t))

C7_StarvationFree ==
  /\ []NoCallStuck
  /\ \A t \in Threads : (pc[t] # "idle") ~> (pc[t] = "idle")

\* Every call has returned, one of them a follower's.
C7_Witness ==
  /\ Len(result) >= 2
  /\ \A id \in 1..Len(result) : result[id] = "ok"
  /\ \E a, b \in Acked : a < b /\ batchOf[a] = batchOf[b]
  /\ \A t \in Threads : pc[t] = "idle"

\* ------------------------------------------------------------------ C8
\* C8: when the append or sync of a batch fails, every caller whose command
\* is in that batch, leader or follower, gets the error.
InFailedBatch(id) == IF id <= Len(batchOf) THEN batchOf[id] \in failedB ELSE FALSE
GotError(id) == IF id <= Len(result) THEN result[id] = "err" ELSE FALSE

C8_ErrorToWholeBatch ==
  \A id \in CallIds : InFailedBatch(id) ~> GotError(id)

\* ------------------------------------------------------------------ C9
\* C9: after a leader's append or sync has failed, every thread waiting on
\* that batch's pair (its followers, and the next leader) is eventually
\* woken and its call returns.
C9_NobodyBlockedForever ==
  \A t \in Threads :
     (pc[t] \in {"wait_batch", "wait_prev"} /\ notif[t] \in failedB) ~> (pc[t] = "idle")

\* ----------------------------------------------------------------- C10
\* C10: when a leader returns the error of a failed append or sync, the
\* memtable is what it was when the leader took its batch, and no command
\* of a failed batch is ever applied to the memtable.
C10_FailedBatchNotApplied ==
  /\ [][\A t \in Threads :
          (Appending(t) /\ myDone[t] \notin failedB /\ myDone[t] \in failedB')
             => memtable' = memBefore[t]]_vars
  /\ [](\A id \in 1..Len(batchOf) : batchOf[id] \in failedB => id \notin Range(applied))

\* A batch failed after the record of one of its Set commands was written
\* whole, and get does not see that command.
C10_Witness ==
  \E i \in JsonAt :
     /\ batchOf[file[i].id] \in failedB
     /\ submitted[file[i].id].op = "Set"
     /\ memtable[submitted[file[i].id].k] = None
     /\ phase = "open"


\* ----------------------------------------------------------------- C11
\* The records forced durable so far: the synced prefix of the journal.
Durable == SubSeq(file, 1, synced)

\* The leader (if any) whose sync_all has completed and whose apply loop has
\* not run yet, and the number of pieces its batch has in the journal.
SyncedNotApplied == {t \in Threads : pc[t] = "lock_mem"}
UnappliedPieces ==
  IF SyncedNotApplied = {} THEN 0
  ELSE 2 * Len(writes[CHOOSE t \in SyncedNotApplied : TRUE])

\* C11 as stated: at every instant of an open store the memtable is the
\* result of applying, in journal order, every record forced durable so far.
C11_IndexEqualsDurable ==
  phase = "open" => memtable = ReplayLog(Durable).mem

\* C11 amended: the memtable is the result of applying, in journal order,
\* every durable record except those of the one batch whose sync_all has
\* completed and whose apply loop has not run yet; so it never reflects a
\* record that is not durable.
C11_IndexEqualsDurableApplied ==
  phase = "open" =>
     /\ ReplayLog(SubSeq(file, 1, synced - UnappliedPieces)).ok
     /\ memtable = ReplayLog(SubSeq(file, 1, synced - UnappliedPieces)).mem

\* A second batch is durable and not applied yet, on top of an applied
\* first batch, while the journal already changed the memtable.
C11_Witness ==
  /\ phase = "open"
  /\ SyncedNotApplied # {}
  /\ memtable # EmptyMem
  /\ memtable # ReplayLog(Durable).mem


\* ----------------------------------------------------------------- C12
\* C12: whenever no leader is between its journal append and its index
\* apply, the journal file replays without error and the memtable is the
\* result of that replay, also after a batch failed with records appended.
NoLeaderInFlight ==
  \A t \in Threads : pc[t] \notin {"write_json", "write_nl", "sync", "lock_mem"}

C12_IndexIsReplayOfJournal ==
  (phase = "open" /\ NoLeaderInFlight) =>
     /\ ReplayLog(file).ok
     /\ ReplayLog(file).mem = memtable


\* ----------------------------------------------------------------- C13
AllCallsOk == \A id \in 1..Len(result) : result[id] = "ok"
SubmittedEntries == [i \in 1..Len(submitted) |-> Entry(submitted[i], i)]

\* C13: when every call made so far has returned success and the store is
\* then reopened from the same file, the open succeeds and the new memtable
\* is the result of applying exactly those commands, in call order, to an
\* empty mapping, which is also the memtable the store had before.
C13_DurabilityRoundTrip ==
  [][/\ (AllCallsOk /\ phase = "open" /\ phase' = "crashed")
          => /\ memtable = ApplyAll(EmptyMem, SubmittedEntries)
             /\ ReplayLog(file').ok
             /\ ReplayLog(file').mem = memtable
     /\ (AllCallsOk /\ phase = "crashed")
          => /\ phase' # "failed"
             /\ phase' = "open" => memtable' = ApplyAll(EmptyMem, SubmittedEntries)
    ]_vars

\* A store reopened after two or more calls, a delete among them, that had
\* all returned success.
C13_Witness ==
  /\ phase = "open" /\ crashes > 0
  /\ AllCallsOk
  /\ Len(replayed) >= 2
  /\ replayed = [i \in 1..Len(submitted) |-> i]
  /\ \E i \in 1..Len(submitted) : submitted[i].op = "Delete"
  /\ memtable # EmptyMem

\* ----------------------------------------------------------------- C15
\* The journal file ends inside a record: its last piece is a proper prefix
\* of a JSON text.
TailIncomplete(f) == f # <<>> /\ f[Len(f)].kind = "part"

\* C15: opening the store on a journal that ends in an incomplete final
\* record does not fail.
C15_TruncatedTailTolerated ==
  TailIncomplete(file) => phase # "failed"


\* ----------------------------------------------------------------- C14
\* The value get returns for the key of command c once c is the last write
\* applied to that key.
ValueOf(c) == IF c.op = "Set" THEN c.v ELSE None

\* positions of call id in the apply order
AppliedAt(id) == {i \in 1..Len(applied) : applied[i] = id}

\* C14: a call that has returned success (in this run of the store) has had
\* its command applied to the memtable, and until a later write to the same
\* key is applied the memtable holds its value (absent for a delete) for
\* that key.
C14_AckedIsVisible ==
  phase = "open" =>
    \A id \in Acked \ ackedAtCrash :
       /\ AppliedAt(id) # {}
       /\ \A i \in AppliedAt(id) :
             (\A j \in (i + 1)..Len(applied) : submitted[applied[j]].k # submitted[id].k)
                => memtable[submitted[id].k] = ValueOf(submitted[id])

\* Two calls that set different keys have both returned success and both
\* values are in the memtable.
C14_Witness ==
  /\ phase = "open"
  /\ \E a, b \in Acked \ ackedAtCrash :
        /\ submitted[a].op = "Set" /\ submitted[b].op = "Set"
        /\ submitted[a].k # submitted[b].k
        /\ memtable[submitted[a].k] = submitted[a].v
        /\ memtable[submitted[b].k] = submitted[b].v


\* ----------------------------------------------------------------- C16
\* The batches of a set of calls, and the number of completed sync_all calls
\* made for them.
BatchesOf(S) == {batchOf[id] : id \in S}

RECURSIVE SumSyncs(_)
SumSyncs(B) ==
  IF B = {} THEN 0
  ELSE LET b == CHOOSE x \in B : TRUE IN syncCalls[b] + SumSyncs(B \ {b})

SyncsFor(S) == SumSyncs(BatchesOf(S))

\* The calls that arrived (locked Db.state) before any sync_all completed.
FirstWave == 1..wave

\* C16 as stated: for K >= 2 calls that all arrived before any sync
\* completed, fewer than K syncs are made for them, and each of them returns
\* success only after the sync of its batch.
C16_FewerSyncsThanWrites ==
  /\ wave >= 2 => SyncsFor(FirstWave) < wave
  /\ \A id \in FirstWave : result[id] = "ok" => syncCalls[batchOf[id]] > 0

\* C16 amended: for K >= 3 such calls at most two syncs are made for them
\* (fewer than K); for K = 2 there may be two.  Each of them returns success
\* only after the sync of its batch.
C16_AtMostTwoSyncsPerWave ==
  /\ SyncsFor(FirstWave) <= 2
  /\ wave >= 3 => SyncsFor(FirstWave) < wave
  /\ \A id \in FirstWave : result[id] = "ok" => syncCalls[batchOf[id]] > 0

\* Three calls arrived before any sync completed, two syncs were made for
\* them and all three have returned success.
C16_Witness ==
  /\ wave >= 3
  /\ SyncsFor(FirstWave) = 2
  /\ \A id \in FirstWave : result[id] = "ok"


\* ----------------------------------------------------------------- C17
\* the leader holds the memtable mutex (lines 140-147)
MemtableHeld == \E t \in Threads : pc[t] \in {"notify", "unlock"}

\* C17: a get changes nothing of the pipeline state, its mutex, the journal,
\* the memtable or any caller's position; and a get can complete in every
\* state of an open store in which no leader is inside its short memtable
\* section: while the state mutex is held, while a leader appends or syncs
\* and while callers wait on a pair.
C17_GetOutsidePipeline ==
  /\ [](\A k \in Keys : (phase = "open" /\ ~MemtableHeld) => ENABLED Get(k))
  /\ [][(\E k \in Keys : Get(k))
          => UNCHANGED <<pc, state, stateLock, logLock, done, file, synced,
                         memtable>>]_vars

\* A get has returned a value, a leader is syncing and another caller waits
\* on a pair.
C17_Witness ==
  /\ got # None
  /\ \E t, u \in Threads :
        /\ pc[t] = "sync"
        /\ pc[u] \in {"wait_prev", "wait_batch"}


\* ----------------------------------------------------------------- C18
\* a leader that has taken its batch (past lines 121-131)
HasTaken(t) == pc[t] \in {"lock_log", "write_json", "write_nl", "sync",
                          "lock_mem", "notify", "unlock"}
\* the calls ever put in batch b
CallsOf(b) == {id \in 1..Len(batchOf) : batchOf[id] = b}
\* the calls of the threads that wait on the pair of batch b
WaitersOn(b) == {myCall[u] : u \in {v \in Threads : pc[v] = "wait_batch" /\ notif[v] = b}}

\* C18: once a leader has taken its batch and installed Pending with its own
\* pair, the state never again is PendingLeader of that batch, the commands
\* it took are all the commands ever put in that batch, and until it sets
\* its pair they are exactly the commands of the callers waiting on the pair
\* plus its own.
C18_TakenBatchIsClosed ==
  \A t \in Threads :
     HasTaken(t) =>
        /\ ~(state.tag = "PendingLeader" /\ state.notif = myDone[t])
        /\ Range(IdsOf(writes[t])) = CallsOf(myDone[t])
        /\ pc[t] # "unlock" =>
              Range(IdsOf(writes[t])) = WaitersOn(myDone[t]) \cup {myCall[t]}

\* A leader writes a batch of two commands while a caller that arrived
\* after the batch was taken leads the next batch.
C18_Witness ==
  \E t, u \in Threads :
     /\ pc[t] = "write_json" /\ Len(writes[t]) >= 2
     /\ pc[u] = "wait_prev" /\ notif[u] = myDone[t]


\* ----------------------------------------------------------------- C19
\* C19: while a leader appends or syncs, the state mutex is free and any
\* caller can register its command (as leader of the next batch or as its
\* follower); the state in which batch N is being written while batch N+1 is
\* forming with a follower is reached (C19_Witness).
C19_NextBatchFormsDuringIO ==
  \A t \in Threads :
     Appending(t) =>
        /\ stateLock = NoThread
        /\ \A u \in Threads :
              (pc[u] = "idle" /\ Len(submitted) < MaxCalls) => ENABLED Submit(u)

\* A leader is inside its append/sync for batch N while the state is
\* PendingLeader for batch N+1, whose leader waits for batch N and which
\* holds its leader's command and a follower's.
C19_Witness ==
  \E t, u, w \in Threads :
     /\ Appending(t)
     /\ state.tag = "PendingLeader"
     /\ pc[u] = "wait_prev" /\ notif[u] = myDone[t] /\ state.notif = myDone[u]
     /\ pc[w] = "wait_batch" /\ notif[w] = myDone[u]
     /\ Len(state.writes) >= 2


\* ----------------------------------------------------------------- C20
\* a forming leader: between installing PendingLeader (lines 106-112) and
\* replacing it by Pending (lines 122-127)
FormingLeader(t) == pc[t] \in {"wait_prev", "relock"}

\* C20: at most one thread is a forming leader, and as long as it is one
\* (in particular when it locks the state again) the state is PendingLeader
\* with that leader's own pair, so neither panic of apply_command can be
\* reached.
C20_OneFormingLeader ==
  /\ Cardinality({t \in Threads : FormingLeader(t)}) <= 1
  /\ \A t \in Threads :
        FormingLeader(t) => (state.tag = "PendingLeader" /\ state.notif = myDone[t])

\* A forming leader is about to lock the state again after a follower
\* joined its batch, while the previous leader has not returned yet.
C20_Witness ==
  \E t, u \in Threads :
     /\ pc[t] = "relock" /\ Len(state.writes) >= 2
     /\ pc[u] = "unlock" /\ notif[t] = myDone[u]

\* ----------------------------------------------------------------- C21
\* The ids of the records of the journal, in file order.
RECURSIVE IdsIn(_)
IdsIn(f) ==
  IF f = <<>> THEN <<>>
  ELSE IF Head(f).kind = "json" THEN <<Head(f).id>> \o IdsIn(Tail(f))
  ELSE IdsIn(Tail(f))

JournalIds == IdsIn(file)
Increasing(q) == \A i, j \in 1..Len(q) : i < j => q[i] < q[j]
Gapless(q) == \A i \in 1..Len(q) : q[i] = i

\* C21: while no I/O error has happened, the records of the journal, over
\* all batches, are in the order their callers locked Db.state to register
\* (call ids count that order), and so are the commands applied to the
\* memtable; on a host that has not crashed neither sequence skips a call:
\* the record of a call is preceded by the records of all calls registered
\* before it.
C21_JournalInSubmissionOrder ==
  fails = 0 =>
     /\ Increasing(JournalIds)
     /\ Increasing(applied)
     /\ crashes = 0 => (Gapless(JournalIds) /\ Gapless(applied))

\* Without error or crash, two batches, one of them with a follower, were
\* written and applied.
C21_Witness ==
  /\ fails = 0 /\ crashes = 0
  /\ Len(JournalIds) >= 3 /\ Len(applied) >= 3
  /\ \E a, b, c \in Range(applied) :
        a # b /\ batchOf[a] = batchOf[b] /\ batchOf[c] # batchOf[a]

\* ----------------------------------------------------------------- C22
\* Call id is not registered yet and some batch has already failed: if it
\* is ever submitted, it is submitted after the failure.
NotYetSubmittedAfterFailure(id) == failedB # {} /\ Len(submitted) < id
IsSubmitted(id) == id <= Len(submitted)
HasReturned(id) == IF id <= Len(result) THEN result[id] # "pending" ELSE FALSE

\* C22: once a leader's append or sync has failed and its call has returned
\* the error, every set/delete submitted afterwards (no further I/O error
\* happens once MaxFail is reached) eventually returns.
C22_UsableAfterFailure ==
  \A id \in CallIds :
     [](NotYetSubmittedAfterFailure(id)
          => [](IsSubmitted(id) => <>HasReturned(id)))

\* ----------------------------------------------------------------- C23
\* A pair exists as long as Db.state or a running call holds an Arc to it.
Live(s) ==
  \/ state.notif = s
  \/ \E t \in Threads : pc[t] # "idle" /\ (notif[t] = s \/ myDone[t] = s)

\* The pairs created by leaders so far whose flag is false.
Unresolved == {s \in 1..nextSig : ~done[s]}
LiveUnresolved == {s \in Unresolved : Live(s)}

\* The pair of the batch that is forming.
IsForming(s) == state.tag = "PendingLeader" /\ state.notif = s
\* The pair of a batch its leader has taken and not yet resolved.
IsBeingWritten(s) ==
  \E t \in Threads :
     /\ myDone[t] = s
     /\ pc[t] \in {"lock_log", "write_json", "write_nl", "sync", "lock_mem",
                   "notify"}

PipelineDepth ==
  /\ Cardinality(LiveUnresolved) <= 2
  /\ phase = "open" => \A s \in Signals : Live(s) => (s = 0 \/ s \in 1..nextSig)
  /\ crashes = 0 => Cardinality(Unresolved) <= 2
  /\ (fails = 0 /\ phase = "open") =>
        \A s \in LiveUnresolved : IsForming(s) \/ IsBeingWritten(s)

\* C23: in every reachable state at most two pairs held by the store or by
\* a running call have a false flag (on a host that has not crashed: at most
\* two of all pairs ever created); while no I/O error has happened they are
\* the pair of the batch being written and the pair of the batch forming;
\* and no step sets a true flag back to false.
C23_TwoDeepAndMonotone ==
  /\ []PipelineDepth
  /\ [][\A s \in Signals : done[s] => done'[s]]_vars

\* A leader is syncing its batch, after an earlier batch was resolved, while
\* the next batch is forming behind it: two pairs unresolved, one resolved.
C23_Witness ==
  /\ Cardinality(LiveUnresolved) = 2
  /\ \E t, u \in Threads :
        /\ pc[t] = "sync" /\ pc[u] = "wait_prev" /\ notif[u] = myDone[t]
        /\ notif[t] \in 1..nextSig /\ done[notif[t]]

====
